---- MODULE Spec2Model ----
(***************************************************************************)
(* Model of the indexing core of wing-man: Indexer.processDocuments, the   *)
(* skeletonizer and the commit to the vector store, together with the Code *)
(* Graph, the disk and the collaborators it talks to.                      *)
(***************************************************************************)
EXTENDS Integers, Sequences, FiniteSets, TLC

\* ------------------------------------------------------------------ bounds
\* longest batch handed to processDocuments
MaxBatchLen == 2
\* operations of the environment (file writes and removals, filter changes,
\* cache invalidations) in one behaviour
MaxEdits == 2

\* ------------------------------------------------------------ the workspace
Files == {"fileA", "fileB"}
WorkspaceRoot == "/ws"
NoWorkspace == ""
Absent == "absent"
\* The texts a file can hold.  What the parser makes of each is ParseResult.
Texts == {"leaf", "importer", "empty", "malformed"}
Filters == {"**/*", "fileA*"}

\* file:// identifier of a workspace file
Uri(f) == [scheme |-> "file://", root |-> WorkspaceRoot, path |-> f]
Uris == {Uri(f) : f \in Files}

\* node:url fileURLToPath: drops the scheme, keeps the absolute path
fileURLToPath(u) == [scheme |-> "", root |-> u.root, path |-> u.path]

\* node:path relative(workspace, p): the path below the workspace (every
\* file of the model lies below WorkspaceRoot)
relative(ws, p) == p.path

RelPath(u) == relative(WorkspaceRoot, fileURLToPath(u))

\* A node id is the document identifier plus the start of the range.
NodeId(f, n) == [scheme |-> "file://", root |-> WorkspaceRoot, path |-> f, n |-> n]

\* path.relative(workspace, fileURLToPath(node.id)) on a node id
RelativeId(id) == [scheme |-> "", root |-> "", path |-> id.path, n |-> id.n]

\* A relative id is turned back into a file:// id.
convertNodeId_Toggle(id) ==
    IF id.scheme = "file://" THEN RelativeId(id)
    ELSE [scheme |-> "file://", root |-> WorkspaceRoot, path |-> id.path,
          n |-> id.n]

\* Lines 1000-1005
convertNodeId(id) ==
    IF id.scheme = "file://" THEN RelativeId(id) ELSE id

NoParent == [scheme |-> "", root |-> "", path |-> "", n |-> 0]

Sha256(text) == <<"sha256", text>>
\* no digest at all (an undefined value): differs from every digest
NoSha == <<"undefined", "">>

Range(s) == {s[i] : i \in 1..Len(s)}

\* ------------------------------------------------------------------ parser
\* Nodes the parser reports for the document itself, in map order.
OwnNodes(f, text) ==
    CASE text = "leaf" ->
            << [id |-> NodeId(f, 1), uri |-> Uri(f), parentNodeId |-> NoParent] >>
      [] text = "importer" ->
            << [id |-> NodeId(f, 1), uri |-> Uri(f), parentNodeId |-> NoParent],
               [id |-> NodeId(f, 2), uri |-> Uri(f), parentNodeId |-> NodeId(f, 1)],
               [id |-> NodeId(f, 3), uri |-> Uri(f), parentNodeId |-> NodeId(f, 1)] >>
      [] text = "orphan" ->
            << [id |-> NodeId(f, 1), uri |-> Uri(f), parentNodeId |-> NoParent],
               [id |-> NodeId(f, 2), uri |-> Uri(f), parentNodeId |-> NodeId(f, 0)] >>
      [] OTHER -> << >>

\* Files an "importer" text imports from: every other workspace file.
ImportedFiles(f, text) == IF text = "importer" THEN Files \ {f} ELSE {}

\* Nodes located in other documents that the parser surfaces.
RECURSIVE SetToSeq(_)
SetToSeq(S) ==
    IF S = {} THEN << >>
    ELSE LET x == CHOOSE y \in S : TRUE IN <<x>> \o SetToSeq(S \ {x})

ForeignNodes(f, text) ==
    SetToSeq({ [id |-> NodeId(g, 1), uri |-> Uri(g), parentNodeId |-> NoParent] :
                 g \in ImportedFiles(f, text) })

\* createNodesFromDocument: the node map of the document, own nodes first
ParseNodes(f, text) == OwnNodes(f, text) \o ForeignNodes(f, text)

EmptyMap == [k \in {} |-> {}]

ParseImportEdges(f, text) ==
    IF text = "importer"
    THEN [k \in {NodeId(f, 1)} |-> {NodeId(g, 1) : g \in ImportedFiles(f, text)}]
    ELSE EmptyMap

ParseExportEdges(f, text) ==
    [k \in {NodeId(g, 1) : g \in ImportedFiles(f, text)} |-> {NodeId(f, 1)}]

ParseThrows(text) == text = "malformed"

\* ------------------------------------------------------------------- state
VARIABLES
    workspace,          \* Indexer.workspace
    edits,              \* operations of the environment so far
    reverted,           \* files written back to the text they were indexed with
    filterSet,          \* setInclusionFilter was called and clearCache not since
    onRemoved,          \* per file: the promise of its onFileRemoved call of this pass
    fs,                 \* the disk: text of every workspace file, or Absent
    symbolTable,        \* CodeGraph symbol table: relative path -> [nodeIds, sha]
    importEdges,        \* CodeGraph import edges: node id -> set of node ids
    exportEdges,        \* CodeGraph export edges
    syncing,            \* Indexer.syncing
    inclusionFilter,    \* Indexer.inclusionFilter
    matchedFilesCache,  \* Indexer.matchedFilesCache: Null or a set of paths
    storeDocs,          \* documents held by the vector store
    persisted,          \* edge maps and symbol table of the last save, or Null
    pc,                 \* position of processDocuments
    documentUris,       \* the batch
    fullBuild,
    idx,                \* position of the for-of over documentUris
    alreadyVisited,
    fileHashMap,
    relatedNodes,       \* the frontier, in insertion order
    fpos,               \* position of the for-of over relatedNodes
    nodesToProcess,     \* in insertion order
    curSha,             \* digest computed for the document about to be parsed
    rootPos,            \* position of the for-of over rootNodes
    genState,           \* per node: "idle", "inflight" or "done"
    genInput,           \* per node: the code block handed to the generator
    skeletonNodes,      \* result collection of skeletonizeCodeNodes
    parsed,             \* createNodesFromDocument calls of this pass, per file
    saveCount,          \* VectorStore.save calls of this pass
    savedIds,           \* ids of the documents saved in this pass
    errored,            \* identifiers whose processing reached the catch block
    exitPath,           \* how the pass returned
    startGraph,         \* the Code Graph when the pass started
    deleteCalls,        \* deletions of this pass: what was asked of the store
    removedNodeIds,     \* node ids of the entries removed in this pass
    failedPrev,         \* files whose processing failed after their parse
    mustRetry,          \* failedPrev files that are in the running batch
    genFailed,          \* identifiers of this pass for which a generation failed
    saveCalls,          \* VectorStore.save calls of this pass: [uri, ok, incremental]
    commitFailed,       \* files whose commit failed and that were not handled since
    processing,         \* onFileProcessing calls of this pass, per file
    threads,            \* ComposerProvider: the threads state
    activeThread,       \* ComposerProvider: the activeThread state
    renderedThreads,    \* threads as the callbacks of the last render see it
    renderedActive,     \* activeThread as the callbacks of the last render see it
    posted,             \* messages handed to vscode.postMessage
    fileContext,        \* TypescriptFileContext.ts: file name -> context object
    contexts,           \* the context objects: their imports maps
    tsFileContext,      \* TypescriptLangParser.tsFileContext
    returned            \* getTypescriptFileContext calls so far: [fileName, context]

graphVars == <<symbolTable, importEdges, exportEdges>>
storeVars == <<storeDocs, persisted>>
cfgVars   == <<workspace, inclusionFilter>>
loopVars  == <<documentUris, fullBuild, idx, alreadyVisited, fileHashMap>>
frontVars == <<relatedNodes, fpos, nodesToProcess, curSha>>
skelVars  == <<rootPos, genState, genInput, skeletonNodes>>
logVars   == <<parsed, saveCount, savedIds, errored, exitPath, startGraph,
               deleteCalls, removedNodeIds, failedPrev, mustRetry,
               genFailed, saveCalls, commitFailed, processing>>
uiVars    == <<threads, activeThread, renderedThreads, renderedActive, posted>>
tsVars    == <<fileContext, contexts, tsFileContext, returned>>
vars == <<edits, reverted, filterSet, onRemoved, workspace, fs, symbolTable, importEdges, exportEdges, syncing,
          inclusionFilter, matchedFilesCache, storeDocs, persisted, pc,
          documentUris, fullBuild, idx, alreadyVisited, fileHashMap,
          relatedNodes, fpos, nodesToProcess, curSha, rootPos, genState,
          genInput,
          skeletonNodes, parsed, saveCount, savedIds, errored, exitPath,
          startGraph, deleteCalls, removedNodeIds, failedPrev, mustRetry,
          genFailed, saveCalls, commitFailed, processing,
          threads, activeThread, renderedThreads, renderedActive, posted,
          fileContext, contexts, tsFileContext, returned>>

\* ----------------------------------------------------------- collaborators
\* utils.getTextDocumentFromUri: the document with the file's current text
Undefined == [defined |-> FALSE, uri |-> Uri(""), text |-> ""]
getTextDocumentFromUri(disk, u) ==
    IF disk[RelPath(u)] = Absent THEN Undefined
    ELSE [defined |-> TRUE, uri |-> u, text |-> disk[RelPath(u)]]

existsSync(disk, p) == disk[relative(WorkspaceRoot, p)] # Absent

\* CodeGraph.getFileFromSymbolTable
NoFile == [present |-> FALSE, nodeIds |-> {}, sha |-> NoSha]
GraphGetFile(table, rel) ==
    IF rel \in DOMAIN table
    THEN [present |-> TRUE, nodeIds |-> table[rel].nodeIds, sha |-> table[rel].sha]
    ELSE NoFile

\* Replace-on-key merge of an edge map into another
MergeEdges(old, new) ==
    [k \in (DOMAIN old) \cup (DOMAIN new) |->
        IF k \in DOMAIN new THEN new[k] ELSE old[k]]

DropKeys(edges, keys) == [k \in (DOMAIN edges) \ keys |-> edges[k]]

FormerNodeIds(table, rel) ==
    IF rel \in DOMAIN table THEN table[rel].nodeIds ELSE {}

\* CodeGraph.removeFileFromSymbolTable: drops the entry and the edges keyed
\* by the entry's node ids.  Result: [table, imports, exports]
removeFileFromSymbolTable(table, imports, exports, rel) ==
    [table   |-> [r \in (DOMAIN table) \ {rel} |-> table[r]],
     imports |-> DropKeys(imports, FormerNodeIds(table, rel)),
     exports |-> DropKeys(exports, FormerNodeIds(table, rel))]

\* CodeGraph.updateFileWithEdges: replaces the entry, drops the edges keyed
\* by the previous entry's node ids and puts in the edges passed.
updateFileWithEdges(table, imports, exports, rel, entry, newImports, newExports) ==
    [table   |-> [r \in (DOMAIN table) \cup {rel} |->
                    IF r = rel THEN entry ELSE table[r]],
     imports |-> MergeEdges(DropKeys(imports, FormerNodeIds(table, rel)), newImports),
     exports |-> MergeEdges(DropKeys(exports, FormerNodeIds(table, rel)), newExports)]

\* matchedFilesCache before the first glob
NullCache == [isNull |-> TRUE, files |-> {}]

\* tinyglobby glob(pattern, {cwd: workspace, onlyFiles}): the files on disk
\* that match the pattern
Matches(pattern, f) == pattern = "**/*" \/ (pattern = "fileA*" /\ f = "fileA")
glob(disk, pattern) == {f \in Files : disk[f] # Absent /\ Matches(pattern, f)}

\* VectorStore.findDocumentsByPath
findDocumentsByPath(docs, paths) == {d \in docs : d.filePath \in paths}

\* VectorStore.deleteDocuments
deleteDocuments(docs, ids) == {d \in docs : d.id \notin ids}

\* VectorStore.save: documents are upserted by id
saveDocuments(docs, codeDocs) ==
    {d \in docs : d.id \notin {c.id : c \in codeDocs}} \cup codeDocs

\* Parser.mergeCodeNodeSummariesIntoParent: the spans of the children whose
\* skeleton is in the collection are replaced; the block is identified by them
mergeCodeNodeSummariesIntoParent(childIds, skeletons) ==
    {c \in childIds : \E i \in 1..Len(skeletons) : skeletons[i].id = c}

\* ------------------------------------------------------------------- Init
NoLog == [f \in Files |-> 0]
NothingPersisted == [saved |-> FALSE, imports |-> {}, exports |-> {},
                     table |-> EmptyMap]
NoGraph == [table |-> EmptyMap, imports |-> EmptyMap, exports |-> EmptyMap,
            cache |-> NullCache, persisted |-> NothingPersisted]

\* ComposerProvider before its first render (lines 382-383)
NoThread == "none"
InitComposer ==
    /\ threads = << >>
    /\ activeThread = NoThread
    /\ renderedThreads = << >>
    /\ renderedActive = NoThread
    /\ posted = << >>

\* TypescriptFileContext.ts line 11 and TypescriptLangParser.ts line 19
NoContext == 0
InitFileContext ==
    /\ fileContext = EmptyMap
    /\ contexts = << >>
    /\ tsFileContext = NoContext
    /\ returned = << >>

\* The Indexer after its construction, nothing indexed yet
InitIndexer ==
    /\ workspace \in {NoWorkspace, WorkspaceRoot}
    /\ edits = 0
    /\ reverted = {}
    /\ filterSet = FALSE
    /\ onRemoved = [f \in Files |-> "none"]
    /\ symbolTable = EmptyMap
    /\ importEdges = EmptyMap
    /\ exportEdges = EmptyMap
    /\ syncing = FALSE
    /\ inclusionFilter = "**/*"
    /\ matchedFilesCache = NullCache
    /\ storeDocs = {}
    /\ persisted = NothingPersisted
    /\ pc = "idle"
    /\ documentUris = << >>
    /\ fullBuild = FALSE
    /\ idx = 0
    /\ alreadyVisited = {}
    /\ fileHashMap = EmptyMap
    /\ relatedNodes = << >>
    /\ fpos = 0
    /\ nodesToProcess = << >>
    /\ curSha = NoSha
    /\ rootPos = 0
    /\ genState = EmptyMap
    /\ genInput = EmptyMap
    /\ skeletonNodes = << >>
    /\ parsed = NoLog
    /\ saveCount = 0
    /\ savedIds = {}
    /\ errored = {}
    /\ exitPath = "none"
    /\ startGraph = NoGraph
    /\ deleteCalls = {}
    /\ removedNodeIds = {}
    /\ failedPrev = {}
    /\ mustRetry = {}
    /\ genFailed = {}
    /\ saveCalls = {}
    /\ commitFailed = {}
    /\ processing = NoLog
    /\ InitComposer
    /\ InitFileContext

Init ==
    /\ fs \in [Files -> Texts \cup {Absent}]
    /\ InitIndexer

\* A workspace with a file whose parser output has a node nested in a node
\* that is not among the nodes of the file.
InitOrphan ==
    /\ fs \in [Files -> {"orphan", "leaf", Absent}]
    /\ \E f \in Files : fs[f] = "orphan"
    /\ InitIndexer

\* ------------------------------------------------------------ environment
\* The user saves a file with a new text (or creates it).
WriteFile(f, text) ==
    /\ pc = "idle"
    /\ fs[f] # text
    /\ edits < MaxEdits
    /\ edits' = edits + 1
    /\ fs' = [fs EXCEPT ![f] = text]
    /\ reverted' = IF f \in DOMAIN symbolTable /\ symbolTable[f].sha = Sha256(text)
                   THEN reverted \cup {f} ELSE reverted \ {f}
    /\ failedPrev' = failedPrev \ {f}
    /\ commitFailed' = commitFailed \ {f}
    /\ UNCHANGED <<filterSet, onRemoved, graphVars, storeVars, cfgVars, loopVars, frontVars, skelVars,
                   syncing, matchedFilesCache, pc, parsed, processing, saveCount, savedIds,
                   errored, exitPath, startGraph, genFailed, saveCalls, deleteCalls, removedNodeIds,
                   mustRetry>>
    /\ UNCHANGED <<uiVars, tsVars>>

\* The user deletes a file.
UnlinkFile(f) ==
    /\ pc = "idle"
    /\ fs[f] # Absent
    /\ edits < MaxEdits
    /\ edits' = edits + 1
    /\ fs' = [fs EXCEPT ![f] = Absent]
    /\ reverted' = reverted \ {f}
    /\ failedPrev' = failedPrev \ {f}
    /\ commitFailed' = commitFailed \ {f}
    /\ UNCHANGED <<filterSet, onRemoved, graphVars, storeVars, cfgVars, loopVars, frontVars, skelVars,
                   syncing, matchedFilesCache, pc, parsed, processing, saveCount, savedIds,
                   errored, exitPath, startGraph, genFailed, saveCalls, deleteCalls, removedNodeIds,
                   mustRetry>>
    /\ UNCHANGED <<uiVars, tsVars>>

\* Indexer.clearCache: matchedFilesCache?.clear()
clearCache ==
    /\ pc = "idle"
    /\ filterSet \/ (~matchedFilesCache.isNull /\ matchedFilesCache.files # {})
    /\ matchedFilesCache' = IF matchedFilesCache.isNull
                            THEN matchedFilesCache
                            ELSE [matchedFilesCache EXCEPT !.files = {}]
    /\ filterSet' = FALSE
    /\ edits < MaxEdits
    /\ edits' = edits + 1
    /\ UNCHANGED <<fs, reverted, onRemoved, graphVars, storeVars, cfgVars, loopVars, frontVars,
                   skelVars, syncing, pc, logVars>>
    /\ UNCHANGED <<uiVars, tsVars>>

\* Indexer.setInclusionFilter
setInclusionFilter(filter) ==
    /\ pc = "idle"
    /\ filter # inclusionFilter
    /\ inclusionFilter' = filter
    /\ filterSet' = TRUE
    /\ edits < MaxEdits
    /\ edits' = edits + 1
    /\ UNCHANGED <<fs, reverted, onRemoved, graphVars, storeVars, workspace, loopVars, frontVars,
                   skelVars, syncing, matchedFilesCache, pc, logVars>>
    /\ UNCHANGED <<uiVars, tsVars>>

\* ------------------------------------------------------- processDocuments
\* A batch: an array of identifiers, or no array at all
Batches ==
    {[isNull |-> TRUE, uris |-> << >>]} \cup
    {[isNull |-> FALSE, uris |-> u] :
        u \in UNION {[1..n -> Uris] : n \in 0..MaxBatchLen}}

\* The body of the document loop is left: its block-scoped locals are gone.
LeaveBody ==
    /\ relatedNodes' = << >>
    /\ fpos' = 0
    /\ nodesToProcess' = << >>
    /\ curSha' = NoSha
    /\ rootPos' = 0
    /\ genState' = EmptyMap
    /\ genInput' = EmptyMap
    /\ skeletonNodes' = << >>

\* The error ends the pass instead of the document.
CatchError_Abort ==
    /\ errored' = errored \cup {documentUris[idx]}
    /\ idx' = idx
    /\ pc' = "returned"
    /\ LeaveBody

\* Lines 894-901, the catch block of the document loop: log and go on with
\* the next identifier.
CatchError ==
    /\ errored' = errored \cup {documentUris[idx]}
    /\ idx' = idx + 1
    /\ pc' = "loop"
    /\ LeaveBody

\* The early return also drops the matched-files set.
SkipIndexing_DropsCache(batch, fb) ==
    /\ pc = "idle"
    /\ (workspace = NoWorkspace \/ batch.isNull \/ Len(batch.uris) = 0)
    /\ syncing' = FALSE
    /\ matchedFilesCache' = NullCache
    /\ pc' = "returned"
    /\ exitPath' = "skipped"
    /\ startGraph' = [table |-> symbolTable, imports |-> importEdges,
                      exports |-> exportEdges, cache |-> matchedFilesCache,
                      persisted |-> persisted]
    /\ UNCHANGED <<fs, reverted, filterSet, onRemoved, edits, graphVars,
                   storeVars, cfgVars, loopVars, frontVars, skelVars,
                   parsed, processing, saveCount, savedIds, errored,
                   deleteCalls, removedNodeIds, mustRetry, genFailed,
                   saveCalls, failedPrev, commitFailed, uiVars, tsVars>>

\* Lines 740-748: nothing to index.
SkipIndexing(batch, fb) ==
    /\ pc = "idle"
    /\ (workspace = NoWorkspace \/ batch.isNull \/ Len(batch.uris) = 0)
    /\ syncing' = FALSE
    /\ pc' = "returned"
    /\ exitPath' = "skipped"
    /\ parsed' = NoLog
    /\ processing' = NoLog
    /\ saveCount' = 0
    /\ savedIds' = {}
    /\ errored' = {}
    /\ deleteCalls' = {}
    /\ removedNodeIds' = {}
    /\ mustRetry' = {}
    /\ genFailed' = {}
    /\ saveCalls' = {}
    /\ startGraph' = [table |-> symbolTable, imports |-> importEdges,
                      exports |-> exportEdges, cache |-> matchedFilesCache,
                      persisted |-> persisted]
    /\ UNCHANGED <<fs, reverted, filterSet, onRemoved, edits, graphVars, storeVars, cfgVars, loopVars, frontVars,
                   skelVars, matchedFilesCache, failedPrev, commitFailed>>
    /\ UNCHANGED <<uiVars, tsVars>>

\* Lines 749-753: a pass starts.
StartPass(batch, fb) ==
    /\ pc = "idle"
    /\ ~(workspace = NoWorkspace \/ batch.isNull \/ Len(batch.uris) = 0)
    /\ syncing' = TRUE
    /\ fileHashMap' = EmptyMap
    /\ alreadyVisited' = {}
    /\ documentUris' = batch.uris
    /\ fullBuild' = fb
    /\ idx' = 1
    /\ pc' = "loop"
    /\ parsed' = NoLog
    /\ processing' = NoLog
    /\ saveCount' = 0
    /\ savedIds' = {}
    /\ errored' = {}
    /\ exitPath' = "none"
    /\ deleteCalls' = {}
    /\ removedNodeIds' = {}
    /\ startGraph' = [table |-> symbolTable, imports |-> importEdges,
                      exports |-> exportEdges, cache |-> matchedFilesCache,
                      persisted |-> persisted]
    /\ mustRetry' = {f \in failedPrev : Uri(f) \in Range(batch.uris)}
    /\ genFailed' = {}
    /\ saveCalls' = {}
    /\ failedPrev' = {f \in failedPrev : Uri(f) \notin Range(batch.uris)}
    /\ commitFailed' = {f \in commitFailed : Uri(f) \notin Range(batch.uris)}
    /\ UNCHANGED <<fs, reverted, filterSet, onRemoved, edits, graphVars, storeVars, cfgVars, frontVars, skelVars,
                   matchedFilesCache>>
    /\ UNCHANGED <<uiVars, tsVars>>

\* Line 904: the loop is over.
LoopEnd ==
    /\ pc = "loop"
    /\ idx > Len(documentUris)
    /\ syncing' = FALSE
    /\ pc' = "returned"
    /\ exitPath' = "loopEnd"
    /\ UNCHANGED <<fs, reverted, filterSet, onRemoved, edits, graphVars, storeVars, cfgVars, loopVars, frontVars,
                   skelVars, matchedFilesCache, parsed, processing, saveCount, savedIds,
                   errored, startGraph, genFailed, saveCalls, deleteCalls, removedNodeIds,
                   failedPrev, commitFailed, mustRetry>>
    /\ UNCHANGED <<uiVars, tsVars>>

\* Lines 757-759: the identifier was visited earlier in this pass.
SkipVisited ==
    /\ pc = "loop"
    /\ idx <= Len(documentUris)
    /\ documentUris[idx] \in alreadyVisited
    /\ idx' = idx + 1
    /\ UNCHANGED <<fs, reverted, filterSet, onRemoved, edits, graphVars, storeVars, cfgVars, documentUris, fullBuild,
                   alreadyVisited, fileHashMap, frontVars, skelVars, syncing,
                   matchedFilesCache, pc, logVars>>
    /\ UNCHANGED <<uiVars, tsVars>>

\* Lines 761-777: the file is gone from disk.
RemoveDocument ==
    /\ pc = "loop"
    /\ idx <= Len(documentUris)
    /\ documentUris[idx] \notin alreadyVisited
    /\ ~existsSync(fs, fileURLToPath(documentUris[idx]))
    /\ LET filePath     == fileURLToPath(documentUris[idx])
           relativePath == relative(workspace, filePath)
           relatedDocs  == findDocumentsByPath(storeDocs, {relativePath})
           ids          == {d.id : d \in relatedDocs}
           g == removeFileFromSymbolTable(symbolTable, importEdges,
                                          exportEdges, relativePath)
       IN /\ storeDocs' = IF relatedDocs # {}
                          THEN deleteDocuments(storeDocs, ids) ELSE storeDocs
          /\ symbolTable' = g.table
          /\ importEdges' = g.imports
          /\ exportEdges' = g.exports
          /\ deleteCalls' = deleteCalls \cup
                {[path |-> relativePath, at |-> idx,
                  invoked |-> relatedDocs # {},
                  ids |-> ids, held |-> {d.id : d \in
                      {e \in storeDocs : e.id.path = relativePath}}]}
          /\ removedNodeIds' = removedNodeIds \cup
                                FormerNodeIds(symbolTable, relativePath)
          \* line 775: the callback is called, its promise is dropped
          /\ onRemoved' = [onRemoved EXCEPT ![relativePath] = "pending"]
    /\ idx' = idx + 1
    /\ UNCHANGED <<fs, reverted, filterSet, edits, persisted, cfgVars, documentUris, fullBuild,
                   alreadyVisited, fileHashMap, frontVars, skelVars, syncing,
                   matchedFilesCache, pc, parsed, processing, saveCount, savedIds, errored,
                   exitPath, startGraph, genFailed, saveCalls, failedPrev, commitFailed, mustRetry>>
    /\ UNCHANGED <<uiVars, tsVars>>

\* The promise returned by onFileRemoved (line 775) settles; nothing of the
\* pass waits for it or handles its rejection.
FileRemovedSettles(f, outcome) ==
    /\ onRemoved[f] = "pending"
    /\ onRemoved' = [onRemoved EXCEPT ![f] = outcome]
    /\ UNCHANGED <<fs, reverted, filterSet, edits, graphVars, storeVars, cfgVars,
                   loopVars, frontVars, skelVars, syncing, matchedFilesCache,
                   pc, logVars>>
    /\ UNCHANGED <<uiVars, tsVars>>

\* Lines 779-781: the frontier of a top-level identifier is seeded.
EnterFrontier ==
    /\ pc = "loop"
    /\ idx <= Len(documentUris)
    /\ documentUris[idx] \notin alreadyVisited
    /\ existsSync(fs, fileURLToPath(documentUris[idx]))
    /\ relatedNodes' = << documentUris[idx] >>
    /\ nodesToProcess' = << >>
    /\ curSha' = NoSha
    /\ fpos' = 1
    /\ pc' = "frontier"
    /\ UNCHANGED <<fs, reverted, filterSet, onRemoved, edits, graphVars, storeVars, cfgVars, loopVars, skelVars,
                   syncing, matchedFilesCache, logVars>>
    /\ UNCHANGED <<uiVars, tsVars>>

\* getFileFromSymbolTable (lines 662-679) on a document that exists
FileFromSymbolTable(disk, table, u) ==
    [file |-> GraphGetFile(table, RelPath(u)),
     relativeFilePath |-> RelPath(u),
     sha |-> Sha256(getTextDocumentFromUri(disk, u).text)]

HashOf(map, rel) == IF rel \in DOMAIN map THEN map[rel] ELSE NoSha

\* The digest of the symbol-table entry is not compared.
AlreadyIndexed_HashMapOnly(info, hashes) ==
    /\ info.file.present
    /\ HashOf(hashes, info.relativeFilePath) = info.sha

\* Any entry counts as indexed, whatever its digest.
AlreadyIndexed_AnyEntry(info, hashes) == info.file.present

\* Lines 798-802 and 839: the file is indexed already
AlreadyIndexed(info, hashes) ==
    /\ info.file.present
    /\ (info.file.sha = info.sha \/ HashOf(hashes, info.relativeFilePath) = info.sha)

\* The document is not recorded as visited.
MarkVisited_Forget(visited, u) == visited

\* Line 787: alreadyVisited.add(currentDocument)
MarkVisited(visited, u) == visited \cup {u}

\* The frontier loop does not move past a visited document.
SkipVisitedRelated_NoAdvance ==
    /\ pc = "frontier"
    /\ fpos <= Len(relatedNodes)
    /\ relatedNodes[fpos] \in alreadyVisited
    /\ UNCHANGED vars

\* Lines 783-807: visit the next document of the frontier.
SkipVisitedRelated ==
    /\ pc = "frontier"
    /\ fpos <= Len(relatedNodes)
    /\ relatedNodes[fpos] \in alreadyVisited
    /\ fpos' = fpos + 1
    /\ UNCHANGED <<fs, reverted, filterSet, onRemoved, edits, graphVars, storeVars, cfgVars, loopVars, relatedNodes,
                   nodesToProcess, curSha, skelVars, syncing, matchedFilesCache, pc,
                   logVars>>
    /\ UNCHANGED <<uiVars, tsVars>>

\* The callback is not called.
NotifyProcessing_Skip(log, rel) == log

\* Line 807: this.onFileProcessing(relativeFilePath)
NotifyProcessing(log, rel) == [log EXCEPT ![rel] = @ + 1]

VisitDocument ==
    /\ pc = "frontier"
    /\ fpos <= Len(relatedNodes)
    /\ relatedNodes[fpos] \notin alreadyVisited
    /\ alreadyVisited' = MarkVisited(alreadyVisited, relatedNodes[fpos])
    /\ IF getTextDocumentFromUri(fs, relatedNodes[fpos]) = Undefined
       THEN \* line 668: textDocument!.getText() throws
            CatchError /\ UNCHANGED processing
       ELSE /\ IF AlreadyIndexed(FileFromSymbolTable(fs, symbolTable,
                                   relatedNodes[fpos]), fileHashMap)
               THEN /\ fpos' = fpos + 1
                    /\ pc' = "frontier"
                    /\ curSha' = NoSha
                    /\ UNCHANGED processing
               ELSE /\ fpos' = fpos
                    /\ pc' = "parse"
                    /\ curSha' = FileFromSymbolTable(fs, symbolTable,
                                                     relatedNodes[fpos]).sha
                    \* line 807: the callback is called, its promise dropped
                    /\ processing' = NotifyProcessing(processing,
                                          RelPath(relatedNodes[fpos]))
            /\ UNCHANGED <<idx, errored, relatedNodes, nodesToProcess, skelVars>>
    /\ UNCHANGED <<fs, reverted, filterSet, onRemoved, edits, graphVars, storeVars, cfgVars, documentUris, fullBuild,
                   fileHashMap, syncing, matchedFilesCache, parsed, saveCount,
                   savedIds, exitPath, startGraph, genFailed, saveCalls, deleteCalls, removedNodeIds,
                   failedPrev, commitFailed, mustRetry>>
    /\ UNCHANGED <<uiVars, tsVars>>

\* The inclusion decision without the matched-files set: every file passes.
shouldIncludeFile_Always(disk, filter, cache, rel) ==
    [cache |-> IF cache = NullCache
               THEN [isNull |-> FALSE, files |-> glob(disk, filter)]
               ELSE cache,
     include |-> TRUE]

\* Indexer.shouldIncludeFile: [cache, include]
shouldIncludeFile(disk, filter, cache, rel) ==
    LET filled == IF cache = NullCache
                  THEN [isNull |-> FALSE, files |-> glob(disk, filter)]
                  ELSE cache
    IN [cache |-> filled, include |-> rel \in filled.files]

\* Map.set on the insertion-ordered nodesToProcess
SetNode(nodes, node) ==
    IF \E i \in 1..Len(nodes) : nodes[i].id = node.id
    THEN [i \in 1..Len(nodes) |-> IF nodes[i].id = node.id THEN node ELSE nodes[i]]
    ELSE Append(nodes, node)

\* Set.add on the insertion-ordered frontier
AddRelated(related, u) ==
    IF u \in Range(related) THEN related ELSE Append(related, u)

\* Lines 824-850: the loop over the parsed nodes, from node i on.
\* acc: [cache, related, toProcess, nodeIds, threw]
RECURSIVE ScanNodes(_, _, _, _, _, _, _, _)
ScanNodes(nodes, i, currentDocument, disk, table, hashes, filter, acc) ==
    IF i > Len(nodes) \/ acc.threw THEN acc
    ELSE LET node == nodes[i] IN
      IF node.uri # currentDocument
      THEN IF getTextDocumentFromUri(disk, node.uri) = Undefined
           THEN [acc EXCEPT !.threw = TRUE]
           ELSE LET info == FileFromSymbolTable(disk, table, node.uri)
                    inc  == shouldIncludeFile(disk, filter, acc.cache,
                                              info.relativeFilePath)
                    acc1 == [acc EXCEPT !.cache = inc.cache]
                IN IF ~inc.include
                   THEN ScanNodes(nodes, i + 1, currentDocument, disk, table,
                                  hashes, filter, acc1)
                   ELSE IF AlreadyIndexed(info, hashes)
                   THEN ScanNodes(nodes, i + 1, currentDocument, disk, table,
                                  hashes, filter, acc1)
                   ELSE ScanNodes(nodes, i + 1, currentDocument, disk, table,
                                  hashes, filter,
                                  [acc1 EXCEPT !.related =
                                       AddRelated(acc1.related, node.uri)])
      ELSE ScanNodes(nodes, i + 1, currentDocument, disk, table, hashes, filter,
                     [acc EXCEPT !.toProcess = SetNode(acc.toProcess, node),
                                 !.nodeIds = acc.nodeIds \cup
                                     {RelativeId(node.id)}])

\* Lines 809-861: read, parse, expand the blast radius, update the graph.
ParseDocument ==
    /\ pc = "parse"
    /\ LET currentDocument == relatedNodes[fpos]
           rel  == RelPath(currentDocument)
           textDocument == getTextDocumentFromUri(fs, currentDocument)
       IN
       IF textDocument = Undefined
       THEN \* line 811: return
            /\ pc' = "returned"
            /\ exitPath' = "noTextDocument"
            /\ LeaveBody
            /\ UNCHANGED <<graphVars, loopVars, matchedFilesCache,
                           parsed, errored>>
       ELSE IF ParseThrows(textDocument.text)
       THEN /\ parsed' = [parsed EXCEPT ![rel] = @ + 1]
            /\ CatchError
            /\ UNCHANGED <<graphVars, documentUris, fullBuild, alreadyVisited,
                           fileHashMap, matchedFilesCache, exitPath>>
       ELSE IF Len(ParseNodes(rel, textDocument.text)) = 0
       THEN \* line 822: return
            /\ parsed' = [parsed EXCEPT ![rel] = @ + 1]
            /\ pc' = "returned"
            /\ exitPath' = "zeroNodes"
            /\ LeaveBody
            /\ UNCHANGED <<graphVars, loopVars, matchedFilesCache, errored>>
       ELSE LET sha == curSha
            IN \E acc \in {ScanNodes(ParseNodes(rel, textDocument.text), 1,
                                 currentDocument, fs, symbolTable, fileHashMap,
                                 inclusionFilter,
                                 [cache |-> matchedFilesCache,
                                  related |-> relatedNodes,
                                  toProcess |-> nodesToProcess,
                                  nodeIds |-> {}, threw |-> FALSE])} :
               \E g \in {updateFileWithEdges(symbolTable, importEdges, exportEdges,
                         rel, [nodeIds |-> acc.nodeIds, sha |-> sha],
                         ParseImportEdges(rel, textDocument.text),
                         ParseExportEdges(rel, textDocument.text))} :
               /\ parsed' = [parsed EXCEPT ![rel] = @ + 1]
               /\ matchedFilesCache' = acc.cache
               /\ IF acc.threw
                  THEN /\ CatchError
                       /\ UNCHANGED <<graphVars, documentUris, fullBuild,
                                      alreadyVisited, fileHashMap, exitPath>>
                  ELSE /\ fileHashMap' =
                            [r \in (DOMAIN fileHashMap) \cup {rel} |->
                                IF r = rel THEN sha ELSE fileHashMap[r]]
                       /\ symbolTable' = g.table
                       /\ importEdges' = g.imports
                       /\ exportEdges' = g.exports
                       /\ relatedNodes' = acc.related
                       /\ nodesToProcess' = acc.toProcess
                       /\ curSha' = NoSha
                       /\ fpos' = fpos + 1
                       /\ pc' = "frontier"
                       /\ UNCHANGED <<documentUris, fullBuild, idx, skelVars,
                                      alreadyVisited, errored, exitPath>>
    /\ UNCHANGED <<fs, reverted, filterSet, onRemoved, edits, storeVars, cfgVars, syncing, saveCount,
                   savedIds, startGraph, genFailed, saveCalls, deleteCalls, removedNodeIds,
                   failedPrev, commitFailed, mustRetry, processing>>
    /\ UNCHANGED <<uiVars, tsVars>>

\* Lines 864-866: the frontier is exhausted and nothing was collected.
NothingToProcess ==
    /\ pc = "frontier"
    /\ fpos > Len(relatedNodes)
    /\ Len(nodesToProcess) = 0
    /\ idx' = idx + 1
    /\ pc' = "loop"
    /\ LeaveBody
    /\ UNCHANGED <<fs, reverted, filterSet, onRemoved, edits, graphVars, storeVars, cfgVars, documentUris, fullBuild,
                   alreadyVisited, fileHashMap, syncing, matchedFilesCache,
                   logVars>>
    /\ UNCHANGED <<uiVars, tsVars>>

\* ---------------------------------------------------- skeletonizeCodeNodes
\* Lines 913-922
rootNodes(nodes) == SelectSeq(nodes, LAMBDA n : n.parentNodeId = NoParent)
parentNodeMap(nodes, id) ==
    SelectSeq(nodes, LAMBDA n : n.parentNodeId # NoParent /\ n.parentNodeId = id)
ChildIds(nodes, id) == {c.id : c \in Range(parentNodeMap(nodes, id))}

\* The nodes processNode reaches from a node: the node and, through
\* parentNodeMap, the nodes below it.
RECURSIVE Reached(_, _)
Reached(nodes, id) ==
    {id} \cup UNION {Reached(nodes, c) : c \in ChildIds(nodes, id)}

\* Lines 868-870 and 908-911: skeletonizeCodeNodes is entered.
StartSkeletonize ==
    /\ pc = "frontier"
    /\ fpos > Len(relatedNodes)
    /\ Len(nodesToProcess) > 0
    /\ rootPos' = 1
    /\ genState' = [id \in {n.id : n \in Range(nodesToProcess)} |-> "idle"]
    /\ genInput' = [id \in {n.id : n \in Range(nodesToProcess)} |-> {}]
    /\ skeletonNodes' = << >>
    /\ pc' = "skeletonize"
    /\ UNCHANGED <<fs, reverted, filterSet, onRemoved, edits, graphVars, storeVars, cfgVars, loopVars, frontVars,
                   syncing, matchedFilesCache, logVars>>
    /\ UNCHANGED <<uiVars, tsVars>>

\* processNode does not wait for the children of the node.
ChildrenAwaited_NoAwait(nodes, state, id) == TRUE

\* processNode reached the node: the tasks of all its children have settled
\* (line 929)
ChildrenAwaited(nodes, state, id) ==
    \A c \in ChildIds(nodes, id) : state[c] \in {"done", "skipped"}

\* Lines 932 and 950-995: skeletonizeNode is entered for a node.  Without a
\* text document it returns undefined and nothing is appended (lines 969-971
\* and 938); otherwise the code block is composed and the generator invoked.
GenStart(id) ==
    /\ pc = "skeletonize"
    /\ rootPos <= Len(rootNodes(nodesToProcess))
    /\ id \in Reached(nodesToProcess, rootNodes(nodesToProcess)[rootPos].id)
    /\ genState[id] = "idle"
    /\ ChildrenAwaited(nodesToProcess, genState, id)
    /\ IF getTextDocumentFromUri(fs, Uri(id.path)) = Undefined
       THEN /\ genState' = [genState EXCEPT ![id] = "skipped"]
            /\ rootPos' = IF id = rootNodes(nodesToProcess)[rootPos].id
                          THEN rootPos + 1 ELSE rootPos
            /\ UNCHANGED genInput
       ELSE /\ genState' = [genState EXCEPT ![id] = "inflight"]
            /\ genInput' = [genInput EXCEPT ![id] =
                    IF ChildIds(nodesToProcess, id) # {}
                    THEN mergeCodeNodeSummariesIntoParent(
                             ChildIds(nodesToProcess, id), skeletonNodes)
                    ELSE {}]
            /\ UNCHANGED rootPos
    /\ UNCHANGED <<fs, reverted, filterSet, onRemoved, edits, graphVars, storeVars, cfgVars, loopVars, frontVars,
                   skeletonNodes, syncing, matchedFilesCache, pc, logVars>>
    /\ UNCHANGED <<uiVars, tsVars>>

\* Lines 938-940: the generator returned, the skeleton is appended.
GenFinish(id) ==
    /\ pc = "skeletonize"
    /\ genState[id] = "inflight"
    /\ genState' = [genState EXCEPT ![id] = "done"]
    /\ skeletonNodes' = Append(skeletonNodes,
                               [id |-> id, skeleton |-> genInput[id]])
    /\ rootPos' = IF id = rootNodes(nodesToProcess)[rootPos].id
                  THEN rootPos + 1 ELSE rootPos
    /\ UNCHANGED <<fs, reverted, filterSet, onRemoved, edits, graphVars, storeVars, cfgVars, loopVars, frontVars,
                   genInput, syncing, matchedFilesCache, pc, logVars>>
    /\ UNCHANGED <<uiVars, tsVars>>

\* The generator failed for a node: the error reaches the catch block.
GenFail(id) ==
    /\ pc = "skeletonize"
    /\ genState[id] = "inflight"
    /\ CatchError
    /\ failedPrev' = failedPrev \cup {RelPath(documentUris[idx])}
    /\ genFailed' = genFailed \cup {documentUris[idx]}
    /\ UNCHANGED <<fs, reverted, filterSet, onRemoved, edits, graphVars, storeVars, cfgVars, documentUris, fullBuild,
                   alreadyVisited, fileHashMap, syncing, matchedFilesCache,
                   parsed, processing, saveCount, savedIds, exitPath, startGraph, saveCalls,
                   deleteCalls, removedNodeIds, mustRetry, commitFailed>>
    /\ UNCHANGED <<uiVars, tsVars>>

\* Lines 1007-1040: one document per skeleton
CodeDocs(skeletons, imports) ==
    { [id |-> skeletons[i].id,
       pageContent |-> skeletons[i].skeleton,
       filePath |-> skeletons[i].id.path,
       relatedNodes |->
           IF skeletons[i].id \in DOMAIN imports
           THEN {RelativeId(e) : e \in imports[skeletons[i].id]} ELSE {}] :
      i \in 1..Len(skeletons) }

\* Only the keys of the edge map are made relative.
SerializeEdges_KeysOnly(edges) ==
    { <<convertNodeId(k), edges[k]>> : k \in DOMAIN edges }

\* Lines 1042-1053: the edge map as [key, values] pairs of relative ids
SerializeEdges(edges) ==
    { <<convertNodeId(k), {convertNodeId(v) : v \in edges[k]}>> :
        k \in DOMAIN edges }

\* save is always asked for an incremental commit.
Incremental_Always(fb) == TRUE

\* Line 889: the incremental argument of VectorStore.save is !fullBuild
Incremental(fb) == ~fb

\* Lines 872-892: skeletonizeCodeNodes returned; if there are skeletons the
\* documents are assembled and committed.
SaveGraph ==
    /\ pc = "skeletonize"
    /\ rootPos > Len(rootNodes(nodesToProcess))
    /\ IF Len(skeletonNodes) > 0
       THEN LET codeDocs == CodeDocs(skeletonNodes, importEdges)
            IN /\ storeDocs' = saveDocuments(storeDocs, codeDocs)
               /\ persisted' = [saved |-> TRUE,
                                imports |-> SerializeEdges(importEdges),
                                exports |-> SerializeEdges(exportEdges),
                                table |-> symbolTable]
               /\ savedIds' = savedIds \cup {d.id : d \in codeDocs}
               /\ saveCount' = saveCount + 1
               /\ saveCalls' = saveCalls \cup
                                 {[uri |-> documentUris[idx], ok |-> TRUE,
                                   incremental |-> Incremental(fullBuild)]}
       ELSE UNCHANGED <<storeDocs, persisted, savedIds, saveCount, saveCalls>>
    /\ idx' = idx + 1
    /\ pc' = "loop"
    /\ LeaveBody
    /\ UNCHANGED <<fs, reverted, filterSet, onRemoved, edits, graphVars, cfgVars, documentUris, fullBuild,
                   alreadyVisited, fileHashMap, syncing, matchedFilesCache,
                   parsed, processing, errored, exitPath, startGraph, genFailed, deleteCalls,
                   removedNodeIds, failedPrev, commitFailed, mustRetry>>
    /\ UNCHANGED <<uiVars, tsVars>>

\* Line 884: VectorStore.save fails; the error reaches the catch block.
SaveFail ==
    /\ pc = "skeletonize"
    /\ rootPos > Len(rootNodes(nodesToProcess))
    /\ Len(skeletonNodes) > 0
    /\ saveCount' = saveCount + 1
    /\ saveCalls' = saveCalls \cup
                      {[uri |-> documentUris[idx], ok |-> FALSE,
                        incremental |-> Incremental(fullBuild)]}
    /\ CatchError
    /\ failedPrev' = failedPrev \cup {RelPath(documentUris[idx])}
    /\ commitFailed' = commitFailed \cup {RelPath(documentUris[idx])}
    /\ UNCHANGED <<fs, reverted, filterSet, onRemoved, edits, graphVars, storeVars, cfgVars, documentUris, fullBuild,
                   alreadyVisited, fileHashMap, syncing, matchedFilesCache,
                   parsed, processing, savedIds, exitPath, startGraph, genFailed, deleteCalls,
                   removedNodeIds, mustRetry>>
    /\ UNCHANGED <<uiVars, tsVars>>

\* The promise of processDocuments settles; the caller goes on.
PassSettled ==
    /\ pc = "returned"
    /\ pc' = "idle"
    /\ documentUris' = << >>
    /\ fullBuild' = FALSE
    /\ idx' = 0
    /\ alreadyVisited' = {}
    /\ fileHashMap' = EmptyMap
    /\ parsed' = NoLog
    /\ processing' = NoLog
    /\ saveCount' = 0
    /\ savedIds' = {}
    /\ errored' = {}
    /\ exitPath' = "none"
    /\ startGraph' = NoGraph
    /\ deleteCalls' = {}
    /\ removedNodeIds' = {}
    /\ mustRetry' = {}
    /\ onRemoved' = [f \in Files |-> "none"]
    /\ genFailed' = {}
    /\ saveCalls' = {}
    /\ UNCHANGED <<fs, reverted, filterSet, edits, graphVars, storeVars, cfgVars, frontVars, skelVars,
                   syncing, matchedFilesCache, failedPrev, commitFailed>>
    /\ UNCHANGED <<uiVars, tsVars>>

Next ==
    \/ \E f \in Files, text \in Texts : WriteFile(f, text)
    \/ \E f \in Files : UnlinkFile(f)
    \/ clearCache
    \/ \E filter \in Filters : setInclusionFilter(filter)
    \/ \E batch \in Batches : SkipIndexing(batch, FALSE)
    \/ \E batch \in Batches : StartPass(batch, FALSE)
    \/ LoopEnd
    \/ SkipVisited
    \/ RemoveDocument
    \/ \E f \in Files, outcome \in {"none", "rejected"} :
          FileRemovedSettles(f, outcome)
    \/ EnterFrontier
    \/ SkipVisitedRelated
    \/ VisitDocument
    \/ ParseDocument
    \/ NothingToProcess
    \/ StartSkeletonize
    \/ \E id \in DOMAIN genState : GenStart(id)
    \/ \E id \in DOMAIN genState : GenFinish(id)
    \/ \E id \in DOMAIN genState : GenFail(id)
    \/ SaveGraph
    \/ SaveFail
    \/ PassSettled

Spec == Init /\ [][Next]_vars

\* ------------------------------------------- saves while a pass is suspended
\* The user saves the document the pass is working on while the pass is
\* suspended between getFileFromSymbolTable (lines 789-794), which computed
\* the digest, and getTextDocumentFromUri (line 809), which reads the text.
WriteDuringPass(f, text) ==
    /\ pc = "parse"
    /\ relatedNodes[fpos] = Uri(f)
    /\ fs[f] # text
    /\ edits < MaxEdits
    /\ edits' = edits + 1
    /\ fs' = [fs EXCEPT ![f] = text]
    /\ reverted' = reverted \ {f}
    /\ failedPrev' = failedPrev \ {f}
    /\ commitFailed' = commitFailed \ {f}
    /\ UNCHANGED <<filterSet, onRemoved, graphVars, storeVars, cfgVars, loopVars, frontVars, skelVars,
                   syncing, matchedFilesCache, pc, parsed, processing, saveCount, savedIds,
                   errored, exitPath, startGraph, genFailed, saveCalls,
                   deleteCalls, removedNodeIds, mustRetry>>
    /\ UNCHANGED <<uiVars, tsVars>>

NextRace ==
    \/ Next
    \/ \E f \in Files, text \in Texts : WriteDuringPass(f, text)

SpecRace == Init /\ [][NextRace]_vars

SpecOrphan == InitOrphan /\ [][Next]_vars

\* ------------------------------------------------------ import cycles
\* A workspace whose two files import each other.
InitCycle ==
    /\ fs = [f \in Files |-> "importer"]
    /\ InitIndexer

\* The steps of a running pass: every await of processDocuments settles
\* (the call returns or throws) and the function goes on.
PassStep ==
    \/ LoopEnd
    \/ SkipVisited
    \/ RemoveDocument
    \/ EnterFrontier
    \/ SkipVisitedRelated
    \/ VisitDocument
    \/ ParseDocument
    \/ NothingToProcess
    \/ StartSkeletonize
    \/ \E id \in DOMAIN genState : GenStart(id)
    \/ \E id \in DOMAIN genState : GenFinish(id)
    \/ \E id \in DOMAIN genState : GenFail(id)
    \/ SaveGraph
    \/ SaveFail

SpecCycle == InitCycle /\ [][Next]_vars /\ WF_vars(PassStep)

\* ------------------------------------------------------------------ claims
Running == pc \notin {"idle", "returned"}
Returned == pc = "returned"
BatchFiles == {RelPath(u) : u \in Range(documentUris)}
OwnNodeIds(f) ==
    IF fs[f] = Absent THEN {} ELSE {n.id : n \in Range(OwnNodes(f, fs[f]))}
\* The file had an entry with the digest of its text when the pass started.
CurrentAtStart(f) ==
    /\ fs[f] # Absent
    /\ f \in DOMAIN startGraph.table
    /\ startGraph.table[f].sha = Sha256(fs[f])
StaleAtStart(f) == fs[f] # Absent /\ ~CurrentAtStart(f)
\* The file's nodes were handed to VectorStore.save in this pass.
Committed(f) == OwnNodeIds(f) # {} /\ OwnNodeIds(f) \subseteq savedIds
\* The file's text parses to at least one node of its own.
Indexable(f) == fs[f] # Absent /\ Len(OwnNodes(f, fs[f])) > 0

\* C1: when the processing of some identifier of the batch raised an error,
\* every other identifier of the batch whose file exists and was stale has
\* been parsed, skeletonized and committed by the time the pass returns.
C1_BatchIsolation ==
    (Returned /\ errored # {}) =>
        \A z \in Range(documentUris) \ errored :
            (StaleAtStart(RelPath(z)) /\ Indexable(RelPath(z))) =>
                (parsed[RelPath(z)] >= 1 /\ Committed(RelPath(z)))

\* C2: once processDocuments has returned isSyncing() is false, and it is
\* true from the start of a non-empty pass until that pass returns.
C2_SyncingFlag ==
    /\ Returned => syncing = FALSE
    /\ Running => syncing = TRUE

\* A pass that started on a batch: the snapshot of its start is in startGraph.
GraphUnchanged ==
    /\ symbolTable = startGraph.table
    /\ importEdges = startGraph.imports
    /\ exportEdges = startGraph.exports
    /\ persisted = startGraph.persisted

\* C3: a document that has an entry with the digest of its unchanged text is
\* neither parsed nor saved by a pass, and a pass whose identifiers are all
\* such documents leaves the symbol table, both edge maps and the persisted
\* ones as they were.
C3_Idempotence ==
    pc # "idle" =>
        /\ \A f \in Files :
              CurrentAtStart(f) =>
                  (parsed[f] = 0 /\ OwnNodeIds(f) \cap savedIds = {})
        /\ (\A u \in Range(documentUris) : CurrentAtStart(RelPath(u))) =>
              (GraphUnchanged /\ saveCount = 0)

\* A pass has visited and skipped a document whose documents an earlier
\* pass committed.
C3_Witness ==
    /\ Returned
    /\ \E f \in Files :
          /\ Uri(f) \in Range(documentUris)
          /\ Uri(f) \in alreadyVisited
          /\ CurrentAtStart(f)
          /\ OwnNodeIds(f) # {}
          /\ OwnNodeIds(f) \subseteq {d.id : d \in storeDocs}
          /\ GraphUnchanged

\* C4: a pass that visits a file with a symbol-table entry calls the parser
\* for it if and only if the digest of its text differs from the entry's; a
\* file written back to the text it was indexed with is not parsed.
C4_DigestDrivenStaleness ==
    \A f \in Files :
        ( /\ Uri(f) \in alreadyVisited
          /\ f \in DOMAIN startGraph.table
          /\ ~(pc = "parse" /\ relatedNodes[fpos] = Uri(f)) ) =>
            /\ parsed[f] >= 1 <=> Sha256(fs[f]) # startGraph.table[f].sha
            /\ f \in reverted => parsed[f] = 0

\* A file was edited, written back, and then visited by a pass.
C4_Witness ==
    /\ Returned
    /\ \E f \in reverted : Uri(f) \in alreadyVisited /\ parsed[f] = 0

C6_Deletion ==
    \A c \in deleteCalls :
        /\ c.ids = c.held
        /\ c.invoked <=> c.held # {}
        /\ c.path \notin DOMAIN symbolTable
        /\ \A k \in (DOMAIN importEdges) \cup (DOMAIN exportEdges) :
              convertNodeId(k) \notin removedNodeIds
        /\ parsed[c.path] = 0
        /\ \A id \in savedIds : id.path # c.path

\* C7: while skeletonizeCodeNodes runs, a node with children for which the
\* generator has been invoked has all its children generated with their
\* skeletons in the result collection, and the code block it was invoked
\* with merges exactly the skeletons of those children.
C7_ChildrenBeforeParent ==
    pc = "skeletonize" =>
        \A id \in DOMAIN genState :
            ( /\ ChildIds(nodesToProcess, id) # {}
              /\ genState[id] \in {"inflight", "done"} ) =>
                /\ \A c \in ChildIds(nodesToProcess, id) :
                      /\ genState[c] = "done"
                      /\ \E i \in 1..Len(skeletonNodes) : skeletonNodes[i].id = c
                /\ genInput[id] = ChildIds(nodesToProcess, id)

\* The generator runs for a parent whose two children finished in the
\* order opposite to the one they were started in the node map.
C7_Witness ==
    /\ pc = "skeletonize"
    /\ \E id \in DOMAIN genState :
          /\ genState[id] = "inflight"
          /\ Cardinality(ChildIds(nodesToProcess, id)) = 2
          /\ Len(skeletonNodes) = 2
          /\ skeletonNodes[1].id.n > skeletonNodes[2].id.n

\* The batch [a, b] of the example: a imports b, a's stored digest is stale
\* and b's is current, and no collaborator failed during the pass.
C8_Case(a, b) ==
    /\ Returned
    /\ a # b
    /\ documentUris = << Uri(a), Uri(b) >>
    /\ fs[a] = "importer"
    /\ StaleAtStart(a)
    /\ CurrentAtStart(b)
    /\ errored = {}

\* C8: in that pass a is parsed exactly once, b is never parsed, save is
\* invoked exactly once with documents for a's own nodes only, and the
\* import edge from a's node to b's node is in the edge map of that commit.
C8_Example ==
    \A a \in Files, b \in Files :
        C8_Case(a, b) =>
            /\ parsed[a] = 1
            /\ parsed[b] = 0
            /\ saveCount = 1
            /\ savedIds = OwnNodeIds(a)
            /\ persisted.saved
            /\ \E e \in persisted.imports :
                  /\ e[1] = convertNodeId(NodeId(a, 1))
                  /\ convertNodeId(NodeId(b, 1)) \in e[2]

\* The pass of the example has returned after its single commit.
C8_Witness ==
    \E a \in Files, b \in Files : C8_Case(a, b) /\ saveCount = 1

\* C9: when a pass parsed a document into zero nodes and reported no error,
\* every identifier of the batch whose file was stale and has nodes has been
\* parsed and committed when the pass returns.
C9_EmptyParseSkipsOnlyDocument ==
    ( /\ Returned
      /\ errored = {}
      /\ \E f \in Files : parsed[f] >= 1 /\ fs[f] = "empty" ) =>
        \A z \in Range(documentUris) :
            (StaleAtStart(RelPath(z)) /\ Indexable(RelPath(z))) =>
                (parsed[RelPath(z)] >= 1 /\ Committed(RelPath(z)))

\* C10: a document whose processing failed after its parse in an earlier
\* pass, and whose text has not changed since, is parsed and committed by
\* the next pass that has it in its batch and runs without failure.
C10_FailedDocumentRetried ==
    (Returned /\ errored = {} /\ exitPath = "loopEnd") =>
        \A f \in mustRetry : parsed[f] >= 1 /\ Committed(f)

\* The promise of processDocuments rejects.  Every statement of the document
\* loop is inside its try block, so no action of the pass leaves it this way.
Rejected == pc = "returned" /\ exitPath = "rejected"

\* C11: when VectorStore.save failed during a pass, the call of
\* processDocuments does not complete as a success: its promise rejects.
C11_SaveFailurePropagates ==
    (Returned /\ \E c \in saveCalls : ~c.ok) => Rejected

\* C14: within one pass the parser is invoked at most once for a document.
C14_ParseOncePerPass == \A f \in Files : parsed[f] <= 1

\* A pass on [a, b] has returned in which b, referenced by the nodes of a
\* and an identifier of the batch itself, was parsed once.
C14_Witness ==
    /\ Returned
    /\ \E a \in Files, b \in Files :
          /\ a # b
          /\ documentUris = << Uri(a), Uri(b) >>
          /\ fs[a] = "importer"
          /\ parsed[a] = 1
          /\ parsed[b] = 1

\* C17: the deletion steps run at most once per file in a pass, also when
\* the identifier of the missing file occurs more than once in the batch.
C17_DeletionOncePerPass ==
    \A c \in deleteCalls, d \in deleteCalls : c.path = d.path => c.at = d.at

EntryConsistent(f) ==
    \E text \in Texts :
        /\ symbolTable[f].sha = Sha256(text)
        /\ symbolTable[f].nodeIds =
              {RelativeId(n.id) : n \in Range(OwnNodes(f, text))}

\* C12: in every reachable state, also when a file is saved while the pass
\* is suspended between computing its digest and reading its text, the sha
\* of every symbol-table entry is the digest of the text its nodeIds were
\* parsed from.
C12_EntryDigestMatchesNodes ==
    \A f \in DOMAIN symbolTable : EntryConsistent(f)

\* C13: a clearCache that follows a setInclusionFilter leaves the Indexer so
\* that the next inclusion decision is taken from the files matching the
\* filter now set: a file on disk is included if and only if it matches.
C13_ClearCacheRecomputes ==
    [][ (filterSet /\ ~filterSet') =>
          \A f \in Files :
              fs'[f] # Absent =>
                  ( shouldIncludeFile(fs', inclusionFilter',
                                      matchedFilesCache', f).include
                    <=> Matches(inclusionFilter', f) ) ]_vars

\* C15: while the onFileRemoved callback of a deletion of this pass has not
\* settled, the pass has not started on the identifier after the deleted
\* one, and a rejection of the callback is recorded among the errors of the
\* document loop.
C15_RemovalAwaited ==
    \A c \in deleteCalls :
        /\ onRemoved[c.path] = "pending" => (pc = "loop" /\ idx = c.at + 1)
        /\ onRemoved[c.path] = "rejected" => Uri(c.path) \in errored

\* C16: when skeletonizeCodeNodes is about to return and the generator has
\* succeeded for every node it was invoked for, the result collection has
\* exactly one skeleton for every node of the input set, also for a node
\* whose parentNodeId names a node outside of the set.
C16_OneSkeletonPerNode ==
    (pc = "skeletonize" /\ rootPos > Len(rootNodes(nodesToProcess))) =>
        /\ Len(skeletonNodes) = Len(nodesToProcess)
        /\ {skeletonNodes[i].id : i \in 1..Len(skeletonNodes)} =
              {n.id : n \in Range(nodesToProcess)}

\* C18: every pass that has started eventually returns, in a workspace
\* whose files import each other in a cycle as in any other, when every
\* parser, generator and store call comes back.
C18_PassTerminates == Running ~> Returned

\* A pass on one file of the import cycle has returned after parsing both.
C18_Witness ==
    /\ Returned
    /\ Len(documentUris) = 1
    /\ \A f \in Files : fs[f] = "importer" /\ parsed[f] = 1

\* C19: the inclusion filter is applied to foreign files only.  When a pass
\* has run to the end of its loop without an error, every identifier of the
\* batch whose file was stale and parses to nodes has been parsed and
\* committed even if it does not match the inclusion filter; and at every
\* moment each document of the frontier behind the top-level one (a foreign
\* file found through a node of another file) is in the matched-files set,
\* so it matches the filter in force unless the filter was replaced without
\* clearCache.
C19_FilterOnlyForeign ==
    /\ (Returned /\ exitPath = "loopEnd" /\ errored = {}) =>
          \A z \in Range(documentUris) :
              (/\ StaleAtStart(RelPath(z))
               /\ Indexable(RelPath(z))
               /\ ~Matches(inclusionFilter, RelPath(z))) =>
                  /\ parsed[RelPath(z)] >= 1
                  /\ Committed(RelPath(z))
    /\ \A i \in 2..Len(relatedNodes) :
          /\ RelPath(relatedNodes[i]) \in matchedFilesCache.files
          /\ ~filterSet => Matches(inclusionFilter, RelPath(relatedNodes[i]))

\* A pass over [fileB] under the filter "fileA*": fileB, which the filter
\* does not match, and fileA, found through fileB's nodes, were both stale
\* and have both been parsed and committed.
C19_Witness ==
    /\ Returned
    /\ exitPath = "loopEnd"
    /\ errored = {}
    /\ documentUris = <<Uri("fileB")>>
    /\ inclusionFilter = "fileA*"
    /\ ~filterSet
    /\ \A f \in Files :
          StaleAtStart(f) /\ Indexable(f) /\ parsed[f] = 1 /\ Committed(f)

\* The edge maps and the symbol table of the Code Graph as save would get them
GraphAsSaved ==
    [saved |-> TRUE,
     imports |-> SerializeEdges(importEdges),
     exports |-> SerializeEdges(exportEdges),
     table |-> symbolTable]

\* C21: when a pass has returned and no identifier of it raised an error,
\* the symbol table and the edge maps of the most recent VectorStore.save
\* are those of the Code Graph in memory; this includes the passes that only
\* removed deleted files.
C21_PersistedEqualsGraph ==
    (Returned /\ exitPath = "loopEnd" /\ errored = {} /\ persisted.saved) =>
        persisted = GraphAsSaved

\* The store holds a document for every node of the file's persisted entry.
HasDocuments(f) ==
    \A id \in persisted.table[f].nodeIds :
        \E d \in storeDocs : RelativeId(d.id) = id

\* C22: when the commit of a document failed in an earlier pass and a later
\* pass has run to the end of its loop without an error, every file with an
\* entry in the persisted symbol table has its documents in the store.
C22_NextPassRestoresStore ==
    (Returned /\ exitPath = "loopEnd" /\ errored = {} /\ commitFailed # {}) =>
        \A f \in DOMAIN persisted.table : HasDocuments(f)

\* ------------------------------------------------------- overlapping calls
\* Lines 740-748 in a second processDocuments call, made while the pass is
\* suspended at one of its awaits (reading or parsing a document, lines 809
\* and 814; skeletonizing or saving, lines 868 and 884): the call has nothing
\* to index, resets the flag and returns.
SkipIndexingWhileRunning(batch) ==
    /\ pc \in {"parse", "skeletonize"}
    /\ (workspace = NoWorkspace \/ batch.isNull \/ Len(batch.uris) = 0)
    /\ syncing' = FALSE
    /\ UNCHANGED <<fs, reverted, filterSet, onRemoved, edits, graphVars,
                   storeVars, cfgVars, loopVars, frontVars, skelVars,
                   matchedFilesCache, pc, logVars, uiVars, tsVars>>

NextOverlap ==
    \/ Next
    \/ \E batch \in Batches : SkipIndexingWhileRunning(batch)

SpecOverlap == Init /\ [][NextOverlap]_vars

\* C23: isSyncing() is true in every state in which a processDocuments pass
\* is still executing, also when another processDocuments call starts or
\* returns in the meantime.
C23_SyncingWhileRunning == (pc \notin {"idle", "returned"}) => syncing

\* C24: whatever the order in which the generator calls of sibling subtrees
\* start and finish, the result collection of skeletonizeCodeNodes never
\* holds two skeletons of one node, a child's skeleton stands before its
\* parent's, and when the function is about to return every node processNode
\* reached has its skeleton in the collection.
C24_SiblingInterleaving ==
    pc = "skeletonize" =>
        /\ \A i \in 1..Len(skeletonNodes), j \in 1..Len(skeletonNodes) :
              /\ skeletonNodes[i].id = skeletonNodes[j].id => i = j
              /\ skeletonNodes[i].id \in
                     ChildIds(nodesToProcess, skeletonNodes[j].id) => i < j
        /\ rootPos > Len(rootNodes(nodesToProcess)) =>
              \A r \in Range(rootNodes(nodesToProcess)) :
                  \A id \in Reached(nodesToProcess, r.id) :
                      \E i \in 1..Len(skeletonNodes) : skeletonNodes[i].id = id

\* skeletonizeCodeNodes is about to return the skeletons of a parent and its
\* two children; the child that is later in the node map finished first.
C24_Witness ==
    /\ pc = "skeletonize"
    /\ rootPos > Len(rootNodes(nodesToProcess))
    /\ Len(skeletonNodes) = 3
    /\ skeletonNodes[1].id.n = 3
    /\ skeletonNodes[2].id.n = 2
    /\ skeletonNodes[3].id.n = 1

\* ------------------------------------------------------------- full builds
\* Passes are started with either value of the fullBuild argument.
InitFull ==
    /\ fs \in [Files -> {"leaf", "importer"}]
    /\ InitIndexer

NextFull ==
    \/ Next
    \/ \E batch \in Batches : StartPass(batch, TRUE)

SpecFull == InitFull /\ [][NextFull]_vars

\* C25: every VectorStore.save call of a pass carries incremental = TRUE
\* exactly when the pass was started with fullBuild = FALSE and incremental
\* = FALSE exactly when it was started with fullBuild = TRUE, for every
\* identifier of the batch.
C25_IncrementalFlag ==
    \A c \in saveCalls : c.incremental <=> ~fullBuild

\* A full build over two identifiers has returned; a save was issued for
\* each of them, both not incremental.
C25_Witness ==
    /\ Returned
    /\ fullBuild
    /\ Len(documentUris) = 2
    /\ \A i \in 1..2 :
          \E c \in saveCalls : c.uri = documentUris[i] /\ ~c.incremental
    /\ documentUris[1] # documentUris[2]

\* C26: in a pass, onFileProcessing is invoked at most once for a file, only
\* for a file on disk whose stored digest was not the digest of its text,
\* for every such file the pass visits, and before the file is parsed; a
\* file that is skipped because its digest is current and a deleted file
\* get no call.
C26_ProcessingCallback ==
    \A f \in Files :
        /\ processing[f] <= 1
        /\ parsed[f] <= processing[f]
        /\ processing[f] >= 1 => StaleAtStart(f)
        /\ (Uri(f) \in alreadyVisited /\ StaleAtStart(f)) => processing[f] = 1
        /\ fs[f] = Absent => processing[f] = 0
        /\ CurrentAtStart(f) => processing[f] = 0

\* A pass over [fileA, fileB] has returned: fileA was stale, the callback was
\* invoked for it and it was parsed; fileB was visited with a current digest
\* and got no call.
C26_Witness ==
    /\ Returned
    /\ documentUris = << Uri("fileA"), Uri("fileB") >>
    /\ StaleAtStart("fileA")
    /\ processing["fileA"] = 1
    /\ parsed["fileA"] = 1
    /\ CurrentAtStart("fileB")
    /\ Uri("fileB") \in alreadyVisited
    /\ processing["fileB"] = 0

\* C27: when a processDocuments call has returned through its early return
\* (no workspace, no batch or an empty batch), no parser, generator, store
\* or callback operation was invoked and the Code Graph, what the store was
\* last handed and the matched-files set are what they were before the call.
C27_SkipChangesNothing ==
    (Returned /\ exitPath = "skipped") =>
        /\ parsed = NoLog
        /\ processing = NoLog
        /\ genState = EmptyMap
        /\ saveCalls = {}
        /\ deleteCalls = {}
        /\ \A f \in Files : onRemoved[f] = "none"
        /\ symbolTable = startGraph.table
        /\ importEdges = startGraph.imports
        /\ exportEdges = startGraph.exports
        /\ persisted = startGraph.persisted
        /\ matchedFilesCache = startGraph.cache

\* A call with an empty batch has returned on an Indexer that has a
\* workspace, a non-empty Code Graph and a computed matched-files set.
C27_Witness ==
    /\ Returned
    /\ exitPath = "skipped"
    /\ workspace = WorkspaceRoot
    /\ symbolTable # EmptyMap
    /\ importEdges # EmptyMap
    /\ ~matchedFilesCache.isNull
    /\ matchedFilesCache.files # {}

\* --------------------------------------------------------- ComposerProvider
\* Thread ids uuidv4 can return
ThreadIds == {"t1", "t2", "t3"}
\* Messages posted to the extension in one behaviour
MaxPosted == 4

indexerVars == <<edits, reverted, filterSet, onRemoved, fs, graphVars,
                 storeVars, cfgVars, syncing, matchedFilesCache, pc, loopVars,
                 frontVars, skelVars, logVars>>

CreatedIds == {posted[i].value : i \in {j \in 1..Len(posted) :
                                          posted[j].command = "create-thread"}}

\* Lines 398-417: createThread; id is the value uuidv4 returns
createThread(id) ==
    /\ id \notin CreatedIds
    /\ Len(posted) < MaxPosted
    /\ threads' = Append(threads, id)
    /\ activeThread' = id
    /\ posted' = Append(posted, [command |-> "create-thread", value |-> id])
    /\ UNCHANGED <<renderedThreads, renderedActive, indexerVars, tsVars>>

\* Lines 436-460: deleteThread.  The guard reads the threads value of the
\* render the callback belongs to; the updater works on the current state.
deleteThread(threadId) ==
    /\ Len(posted) < MaxPosted
    /\ IF Len(renderedThreads) <= 1
       THEN UNCHANGED <<threads, activeThread, posted>>
       ELSE LET updatedThreads == SelectSeq(threads, LAMBDA t : t # threadId)
            IN /\ threads' = updatedThreads
               /\ activeThread' =
                     IF renderedActive = threadId /\ Len(updatedThreads) > 0
                     THEN updatedThreads[1] ELSE activeThread
               /\ posted' = Append(posted, [command |-> "delete-thread",
                                            value |-> threadId])
    /\ UNCHANGED <<renderedThreads, renderedActive, indexerVars, tsVars>>

\* React renders the provider again: the callbacks handed to the consumers
\* (lines 616-632) now close over the current state.
Render ==
    /\ <<renderedThreads, renderedActive>> # <<threads, activeThread>>
    /\ renderedThreads' = threads
    /\ renderedActive' = activeThread
    /\ UNCHANGED <<threads, activeThread, posted, indexerVars, tsVars>>

InitThreads ==
    /\ fs = [f \in Files |-> Absent]
    /\ InitIndexer

NextThreads ==
    \/ \E id \in ThreadIds : createThread(id)
    \/ \E id \in ThreadIds : deleteThread(id)
    \/ Render

SpecThreads == InitThreads /\ [][NextThreads]_vars

DeletePosts(msgs) ==
    Len(SelectSeq(msgs, LAMBDA m : m.command = "delete-thread"))

\* C28: whatever createThread and deleteThread calls are made, a thread list
\* that is not empty does not become empty, and no "delete-thread" message
\* is posted by a call that finds at most one thread.
C28_LastThreadKept ==
    [][ /\ threads # << >> => threads' # << >>
        /\ Len(renderedThreads) <= 1 => DeletePosts(posted') = DeletePosts(posted)
      ]_vars

\* ------------------------------------------------------ Indexer.deleteFile
\* CodeGraph.deleteFile: the file's entry and the edges keyed by the entry's
\* node ids leave the graph.
GraphDeleteFile(table, imports, exports, filePath) ==
    removeFileFromSymbolTable(table, imports, exports, filePath)

\* The file path handed to deleteDocuments as a document id (line 721)
PathAsId(filePath) == [scheme |-> "", root |-> "", path |-> filePath, n |-> 0]

\* Lines 719-737: Indexer.deleteFile, called between passes
deleteFile(filePath) ==
    /\ pc = "idle"
    /\ edits < MaxEdits
    /\ edits' = edits + 1
    /\ LET g == GraphDeleteFile(symbolTable, importEdges, exportEdges, filePath)
       IN /\ symbolTable' = g.table
          /\ importEdges' = g.imports
          /\ exportEdges' = g.exports
          /\ storeDocs' = deleteDocuments(storeDocs, {PathAsId(filePath)})
          /\ persisted' = [saved |-> TRUE,
                           imports |-> SerializeEdges(g.imports),
                           exports |-> SerializeEdges(g.exports),
                           table |-> g.table]
    /\ UNCHANGED <<fs, reverted, filterSet, onRemoved, cfgVars, loopVars,
                   frontVars, skelVars, syncing, matchedFilesCache, pc,
                   logVars, uiVars, tsVars>>

InitDelete ==
    /\ fs \in [Files -> {"leaf", "importer"}]
    /\ InitIndexer

NextDelete ==
    \/ Next
    \/ \E f \in Files : deleteFile(f)

SpecDelete == InitDelete /\ [][NextDelete]_vars

\* The node ids of the model, in both forms, and the id of no node
NodeIds ==
    {NodeId(f, n) : f \in Files, n \in 0..3} \cup
    {RelativeId(NodeId(f, n)) : f \in Files, n \in 0..3} \cup {NoParent}

\* The [key, values] pairs are the images of the entries of the edge map,
\* one pair per key and one value per edge.
EdgeImage(pairs, edges) ==
    /\ pairs = { <<RelativeId(k), {RelativeId(v) : v \in edges[k]}>> :
                   k \in DOMAIN edges }
    /\ Cardinality(pairs) = Cardinality(DOMAIN edges)
    /\ \A k \in DOMAIN edges :
          Cardinality({RelativeId(v) : v \in edges[k]}) = Cardinality(edges[k])

\* C29: convertNodeId applied twice gives what it gives applied once, an id
\* that is not a file:// id is left as it is, and whenever embedCodeGraph or
\* deleteFile hands edge maps to VectorStore.save, their keys and values are
\* the relative forms of the keys and values of the Code Graph's edge maps,
\* with as many keys and as many edges.
C29_ConvertNodeId ==
    [][ /\ \A id \in NodeIds :
              /\ convertNodeId(convertNodeId(id)) = convertNodeId(id)
              /\ id.scheme # "file://" => convertNodeId(id) = id
        /\ persisted' # persisted =>
              /\ EdgeImage(persisted'.imports, importEdges')
              /\ EdgeImage(persisted'.exports, exportEdges')
      ]_vars

\* deleteFile has handed the store edge maps that still have edges, with
\* relative ids as keys and values, for a graph without the file's entry.
C29_Witness ==
    /\ pc = "idle"
    /\ persisted = GraphAsSaved
    /\ \E f \in Files :
          /\ fs[f] # Absent
          /\ f \notin DOMAIN symbolTable
          /\ \E pair \in persisted.imports :
                /\ pair[1] = RelativeId(NodeId(f, 1))
                /\ pair[2] # {}
                /\ \A v \in pair[2] : v.scheme = ""

\* ---------------------------------------------------- TypescriptFileContext
TsFiles == {"a.ts", "b.ts"}
\* Texts of the declaration files the compiler emits
Declarations == {"d1", "d2"}
\* init calls in one behaviour
MaxInits == 3

\* Every call makes a new context for the file name.
getTypescriptFileContext_AlwaysNew(map, objs, fileName) ==
    [fileContext |-> [n \in (DOMAIN map) \cup {fileName} |->
                         IF n = fileName THEN Len(objs) + 1 ELSE map[n]],
     contexts |-> Append(objs, EmptyMap),
     context |-> Len(objs) + 1]

\* TypescriptFileContext.ts lines 12-17.  Context objects are numbered in
\* the order of their creation; objs[c] is the imports map of context c.
\* Result: the module's map, the objects, and the context returned.
getTypescriptFileContext(map, objs, fileName) ==
    IF fileName \in DOMAIN map
    THEN [fileContext |-> map, contexts |-> objs, context |-> map[fileName]]
    ELSE [fileContext |-> [n \in (DOMAIN map) \cup {fileName} |->
                              IF n = fileName THEN Len(objs) + 1 ELSE map[n]],
          contexts |-> Append(objs, EmptyMap),
          context |-> Len(objs) + 1]

\* Name of the declaration file emitted for a source file
EmittedName(f) == IF f = "a.ts" THEN "a.d.ts" ELSE "b.d.ts"

\* TypescriptLangParser.ts line 46: filename.replace('.d.ts', '')
RemoveExt(filename) ==
    CASE filename = "a.d.ts" -> "a"
      [] filename = "b.d.ts" -> "b"
      [] OTHER -> filename

\* What program.emit() writes for a document: a declaration for the document
\* and possibly for the files it imports
Emissions(fileName) ==
    UNION {[S -> Declarations] : S \in {T \in SUBSET TsFiles : fileName \in T}}

\* TypescriptLangParser.ts lines 40-50: init(doc); every writeFile call of
\* the emit sets an entry of the imports map of this.tsFileContext
init(fileName, emitted) ==
    /\ Len(returned) < MaxInits
    /\ LET r == getTypescriptFileContext(fileContext, contexts, fileName)
           written == [k \in {RemoveExt(EmittedName(f)) : f \in DOMAIN emitted} |->
                          emitted[CHOOSE f \in DOMAIN emitted :
                                      RemoveExt(EmittedName(f)) = k]]
       IN /\ fileContext' = r.fileContext
          /\ tsFileContext' = r.context
          /\ contexts' = [r.contexts EXCEPT ![r.context] = MergeEdges(@, written)]
          /\ returned' = Append(returned, [fileName |-> fileName,
                                           context |-> r.context])
    /\ UNCHANGED <<indexerVars, uiVars>>

InitTs ==
    /\ fs = [f \in Files |-> Absent]
    /\ InitIndexer

NextTs == \E fileName \in TsFiles : \E emitted \in Emissions(fileName) :
              init(fileName, emitted)

SpecTs == InitTs /\ [][NextTs]_vars

\* C30: the calls of getTypescriptFileContext made so far returned the same
\* context for the same file name and different contexts for different file
\* names; an init call keeps every entry key of the imports map of its
\* file's context and adds the emitted ones, and changes no other context.
C30_ContextPerFile ==
    [][ /\ \A i \in 1..Len(returned'), j \in 1..Len(returned') :
              returned'[i].fileName = returned'[j].fileName
                  <=> returned'[i].context = returned'[j].context
        /\ tsFileContext' = fileContext'[returned'[Len(returned')].fileName]
        /\ \A c \in 1..Len(contexts) :
              IF c = tsFileContext'
              THEN DOMAIN contexts[c] \subseteq DOMAIN contexts'[c]
              ELSE contexts'[c] = contexts[c]
        /\ RemoveExt(EmittedName(returned'[Len(returned')].fileName))
               \in DOMAIN contexts'[tsFileContext']
      ]_vars

\* init ran twice for a.ts and once for b.ts: the context of a.ts holds the
\* declarations of both of its emits, that of b.ts holds only its own.
C30_Witness ==
    /\ Len(returned) = 3
    /\ returned[1].fileName = "a.ts"
    /\ returned[2].fileName = "b.ts"
    /\ returned[3].fileName = "a.ts"
    /\ returned[1].context = returned[3].context
    /\ returned[1].context # returned[2].context
    /\ DOMAIN contexts[fileContext["a.ts"]] = {"a", "b"}
    /\ DOMAIN contexts[fileContext["b.ts"]] = {"b"}
    /\ contexts[fileContext["a.ts"]]["b"] # contexts[fileContext["b.ts"]]["b"]
====
